---- MODULE Spec2Model ----
(***************************************************************************)
(* Model of client/python/SOW-backed-bookmark-store/sow_bookmark_store.py  *)
(* (60East amps-gems): a bookmark store that keeps, per subscription id,   *)
(* the bookmark of the last discarded message in an in-memory dict and in  *)
(* an AMPS SOW topic keyed by /clientName and /subId.                      *)
(*                                                                         *)
(* Python strings are modelled as sequences of one-character strings, so   *)
(* that the '%s' formatting of the published record and of the query       *)
(* filter, and the JSON parsing done by json.loads and by the SOW topic,   *)
(* are computed character by character.                                    *)
(***************************************************************************)
EXTENDS Integers, Sequences, FiniteSets, TLC

(***************************************************************************)
(* Values                                                                  *)
(***************************************************************************)

\* Python's None, as returned by Message.get_sub_id()/get_bookmark() for an
\* unset field.  It is a one-element sequence whose element is not a
\* character, hence different from every string.
None == <<"NONE">>

\* The token get_most_recent returns for an unknown subscription id.
EPOCH == <<"0">>

\* The token log returns.
LOG_TOKEN == <<"1">>

\* Python's False, as is_discarded returns it; like None, different from
\* every string.
False == <<"FALSE">>

True == <<"TRUE">>

QUOTE == "\""

BACKSLASH == "\\"

LF == "\n"

\* Characters json.loads (strict mode) refuses unescaped inside a string.
ControlChars == {LF, "\t", "\r", "\f"}

(***************************************************************************)
(* Line 224: the record published by discard_message,                      *)
(*   '{"clientName": "%s", "subId": "%s", "bookmark": "%s"}' % (...)       *)
(* The three values are inserted verbatim: nothing is escaped.             *)
(***************************************************************************)
RecordHead == <<"{", QUOTE, "c", "l", "i", "e", "n", "t", "N", "a", "m", "e", QUOTE, ":", " ", QUOTE>>

RecordSubId == <<QUOTE, ",", " ", QUOTE, "s", "u", "b", "I", "d", QUOTE, ":", " ", QUOTE>>

RecordBookmark == <<QUOTE, ",", " ", QUOTE, "b", "o", "o", "k", "m", "a", "r", "k", QUOTE, ":", " ", QUOTE>>

RecordTail == <<QUOTE, "}">>

FormatRecord(clientName, subid, bookmark) ==
    RecordHead \o clientName \o RecordSubId \o subid \o RecordBookmark \o bookmark \o RecordTail

\* The field names the code and the topic definition use.
KeyClientName == <<"c", "l", "i", "e", "n", "t", "N", "a", "m", "e">>

KeySubId == <<"s", "u", "b", "I", "d">>

KeyBookmark == <<"b", "o", "o", "k", "m", "a", "r", "k">>

(***************************************************************************)
(* Line 134: the filter of the recovery query,                             *)
(*   "/clientName = '%s'" % self._trackedName                              *)
(***************************************************************************)
FilterHead == <<"/", "c", "l", "i", "e", "n", "t", "N", "a", "m", "e", " ", "=", " ", "'">>

FilterTail == <<"'">>

FormatFilter(trackedName) == FilterHead \o trackedName \o FilterTail

\* What the server makes of a filter text: the string literal compared with
\* /clientName, or None when the text is not of the form /clientName = '...'
\* (a quote inside the literal ends it early and leaves trailing text).
FilterLiteral(filter) ==
    LET n == Len(filter)
        h == Len(FilterHead)
    IN  IF n < h + 1 \/ SubSeq(filter, 1, h) # FilterHead \/ filter[n] # "'"
        THEN None
        ELSE LET lit == SubSeq(filter, h + 1, n - 1)
             IN  IF \E i \in 1..Len(lit) : lit[i] = "'" THEN None ELSE lit

(***************************************************************************)
(* Line 139: json.loads(data), for the documents a SOW topic of            *)
(* MessageType json with string fields holds: one object whose member      *)
(* names and values are strings.  The result is a dict, modelled as a      *)
(* function from member names to values: [ok |-> TRUE, obj |-> dict].      *)
(* ParseError stands for the ValueError json.loads raises on any other     *)
(* text.                                                                   *)
(***************************************************************************)
ParseError == [ok |-> FALSE, obj |-> <<>>]

\* The character a backslash escape stands for (u-escapes are left out: no
\* input of the model contains one).
Unescape(ch) ==
    CASE ch = QUOTE -> <<QUOTE>>
      [] ch = BACKSLASH -> <<BACKSLASH>>
      [] ch = "/" -> <<"/">>
      [] ch = "n" -> <<LF>>
      [] ch = "t" -> <<"\t">>
      [] ch = "r" -> <<"\r">>
      [] ch = "f" -> <<"\f">>
      [] OTHER -> None

RECURSIVE SkipWs(_, _)
SkipWs(d, i) ==
    IF i <= Len(d) /\ d[i] \in {" ", LF, "\t", "\r"} THEN SkipWs(d, i + 1) ELSE i

\* Scan the body of a string whose opening quote was at i-1.
\* Returns [ok, val, next]: next is the index after the closing quote.
RECURSIVE ScanString(_, _, _)
ScanString(d, i, acc) ==
    IF i > Len(d) THEN [ok |-> FALSE, val |-> <<>>, next |-> i]
    ELSE IF d[i] = QUOTE THEN [ok |-> TRUE, val |-> acc, next |-> i + 1]
    ELSE IF d[i] \in ControlChars THEN [ok |-> FALSE, val |-> <<>>, next |-> i]
    ELSE IF d[i] = BACKSLASH
         THEN IF i + 1 > Len(d) \/ Unescape(d[i + 1]) = None
              THEN [ok |-> FALSE, val |-> <<>>, next |-> i]
              ELSE ScanString(d, i + 2, acc \o Unescape(d[i + 1]))
    ELSE ScanString(d, i + 1, Append(acc, d[i]))

ParseString(d, i) ==
    IF i <= Len(d) /\ d[i] = QUOTE
    THEN ScanString(d, i + 1, <<>>)
    ELSE [ok |-> FALSE, val |-> <<>>, next |-> i]

\* Members of an object, from index i (the first character of a member
\* name) on; obj holds the members read so far, a repeated name keeps the
\* last value, as a Python dict does.
RECURSIVE ParseMembers(_, _, _)
ParseMembers(d, i, obj) ==
    LET k == ParseString(d, i)
        c == SkipWs(d, k.next)
        v == ParseString(d, SkipWs(d, c + 1))
        e == SkipWs(d, v.next)
        obj2 == [x \in (DOMAIN obj) \cup {k.val} |-> IF x = k.val THEN v.val ELSE obj[x]]
    IN  IF ~k.ok \/ c > Len(d) \/ d[c] # ":" THEN ParseError
        ELSE IF ~v.ok \/ e > Len(d) THEN ParseError
        ELSE IF d[e] = "}"
             THEN IF SkipWs(d, e + 1) > Len(d) THEN [ok |-> TRUE, obj |-> obj2] ELSE ParseError
        ELSE IF d[e] = ","
             THEN ParseMembers(d, SkipWs(d, e + 1), obj2)
        ELSE ParseError

json_loads(d) ==
    LET s == SkipWs(d, 1)
        m == IF s <= Len(d) THEN SkipWs(d, s + 1) ELSE s
    IN  IF s > Len(d) \/ d[s] # "{" THEN ParseError
        ELSE IF m <= Len(d) /\ d[m] = "}"
             THEN IF SkipWs(d, m + 1) > Len(d) THEN [ok |-> TRUE, obj |-> <<>>] ELSE ParseError
        ELSE ParseMembers(d, m, <<>>)

(***************************************************************************)
(* The SOW topic (lines 54-64): MessageType json, keys /clientName and     *)
(* /subId.  The topic holds the published documents as they were sent,     *)
(* each under the key the server read from it, at most one per key; a      *)
(* publish with the key of a held document replaces it.  A document the    *)
(* server cannot parse, or that lacks a key field, has no key and is not   *)
(* stored.                                                                 *)
(***************************************************************************)
HasKey(doc) ==
    LET p == json_loads(doc)
    IN  p.ok /\ KeyClientName \in DOMAIN p.obj /\ KeySubId \in DOMAIN p.obj

SowKey(doc) ==
    LET p == json_loads(doc)
    IN  <<p.obj[KeyClientName], p.obj[KeySubId]>>

Row(doc) == [key |-> SowKey(doc), data |-> doc]

Upsert(rows, doc) ==
    IF HasKey(doc)
    THEN {r \in rows : r.key # SowKey(doc)} \cup {Row(doc)}
    ELSE rows

\* The rows of the topic a filter /clientName = 'lit' selects.
Matching(rows, lit) == {r \in rows : r.key[1] = lit}

\* All orders in which a set of rows can be returned.
RECURSIVE Orders(_)
Orders(S) ==
    IF S = {} THEN {<<>>}
    ELSE UNION {{<<r>> \o q : q \in Orders(S \ {r})} : r \in S}

SowMessage(doc) == [command |-> "sow", data |-> doc]

GroupBegin == [command |-> "group_begin", data |-> <<>>]

GroupEnd == [command |-> "group_end", data |-> <<>>]

\* The message streams client.sow(topic, filter) can yield: a group_begin
\* marker, one 'sow' message per matching row, a group_end marker.
QueryResults(rows, lit) ==
    {<<GroupBegin>> \o [i \in 1..Len(q) |-> SowMessage(q[i].data)] \o <<GroupEnd>> :
        q \in Orders(Matching(rows, lit))}

(***************************************************************************)
(* Inputs of the model                                                     *)
(***************************************************************************)

\* Names the store is constructed for.  The last one contains the quote
\* character of the filter syntax.
TrackedNames == {<<"c">>, <<"'">>}

\* Another client that keeps bookmarks in the same topic.
OtherName == <<"d">>

\* An AMPS.Message, as far as the store reads it: get_sub_id() and
\* get_bookmark().
Message(subid, bookmark) == [subid |-> subid, bookmark |-> bookmark]

\* The messages handed to the store: messages without a subscription id
\* or without a bookmark; plain ones; ones with an empty subscription id
\* or an empty bookmark; a subscription id of the two characters
\* backslash and n; a bookmark of two backslashes; a subscription id
\* that is a double quote.
Messages ==
    { Message(None, <<"1">>), Message(<<"s">>, None),
      Message(<<"s">>, <<"1">>), Message(<<"s">>, <<"2">>), Message(<<"t">>, <<"1">>),
      Message(<<>>, <<"1">>), Message(<<"s">>, <<>>),
      Message(<<BACKSLASH, "n">>, <<"1">>), Message(<<"s">>, <<BACKSLASH, BACKSLASH>>),
      Message(<<QUOTE>>, <<"1">>) }

\* The messages the host client passes to is_discarded and log as they
\* arrive, and whose fields it passes to persisted and discard.
Arrivals ==
    { Message(<<"s">>, <<"1">>), Message(<<"s">>, <<"2">>) }

\* The subscription ids the host client asks get_most_recent about: one
\* that rows of both clients carry, one whose only row has no bookmark,
\* one that no message and no row carries.
Lookups == {<<"s">>, <<"t">>, <<"u">>}

\* The subscription ids looked up: those of the messages, and the one
\* character string json.loads makes of backslash-n.
SubIds == {m.subid : m \in Messages} \cup {<<LF>>}

\* The number of discard_message calls that reach publish in one run.
MaxDiscards == 2

\* A document of the topic that has the key fields but no bookmark.
NoBookmarkDoc ==
    <<"{", QUOTE>> \o KeyClientName \o <<QUOTE, ":", " ", QUOTE, "c", QUOTE, ",", " ", QUOTE>>
        \o KeySubId \o <<QUOTE, ":", " ", QUOTE, "t", QUOTE, "}">>

\* Documents the topic may hold before the store is constructed: a record
\* left by an earlier run for the tracked client, a record of another
\* client under the same subscription id, a record without a bookmark.
InitDocs ==
    { FormatRecord(<<"c">>, <<"s">>, <<"1">>),
      FormatRecord(OtherName, <<"s">>, <<"2">>),
      NoBookmarkDoc }

(***************************************************************************)
(* State                                                                   *)
(***************************************************************************)
VARIABLES
    sow,                 \* the rows of the SOW topic self._topic
    connected,           \* whether self._internalClient is connected
    held,                \* whether the caller holds a constructed store
    trackedName,         \* self._trackedName
    mostRecentBookmark,  \* self._mostRecentBookmark: subId -> bookmark
    entitled,            \* whether the server applies what the internal client publishes
    discards,            \* the number of discard_message calls that reached publish
    history,             \* the messages this store discarded without error, in call order
    ret,                 \* the call made in the last step: argument, result, I/O it issued
    threads,             \* per thread, how far its discard_message call has got
    replies              \* what a misbehaving server answers the recovery query with

vars == <<sow, connected, held, trackedName, mostRecentBookmark, entitled, discards, history, ret,
          threads, replies>>

NoException == "none"

AMPSException == "AMPSException"

ValueError == "ValueError"

\* What the caller and the server saw of a call: its name, its argument,
\* the exception it raised, the value it returned, the documents it handed
\* to publish and the number of queries it issued.
Call(op, arg, exc, value, pubs, queries) ==
    [op |-> op, arg |-> arg, exc |-> exc, value |-> value, pubs |-> pubs, queries |-> queries]

\* No call was made in the last step.
NoCall == Call("none", None, NoException, None, <<>>, 0)

\* The threads of the host application that call discard_message.
Threads == {1, 2}

\* A thread that is not inside discard_message.
Idle == [pc |-> "idle", message |-> Message(None, None)]

\* The single caller of SOW-backed stores (lines 94-97: messages are
\* discarded in the order received) runs every call to its end within
\* one step: no thread is ever inside a call between steps.
NoThreads == [t \in Threads |-> Idle]

\* The server answers queries from the topic.
NoReplies == <<>>

Init ==
    /\ sow \in {{Row(d) : d \in docs} : docs \in SUBSET InitDocs}
    /\ connected = TRUE
    /\ held = FALSE
    /\ trackedName = None
    /\ mostRecentBookmark = <<>>
    /\ entitled \in BOOLEAN
    /\ discards = 0
    /\ history = <<>>
    /\ ret = NoCall
    /\ threads = NoThreads
    /\ replies = NoReplies

(***************************************************************************)
(* __init__ (lines 113-144)                                                *)
(***************************************************************************)

\* A loop body that keeps the first bookmark of a subscription id, as
\* dict.setdefault does.
RECURSIVE RecoverKeepsFirst(_, _, _)
RecoverKeepsFirst(msgs, i, map) ==
    IF i > Len(msgs) THEN [map |-> map, exc |-> NoException]
    ELSE IF msgs[i].command # "sow" THEN RecoverKeepsFirst(msgs, i + 1, map)
    ELSE LET bookmark_data == json_loads(msgs[i].data)
         IN  IF ~bookmark_data.ok THEN [map |-> map, exc |-> ValueError]
             ELSE IF KeyBookmark \in DOMAIN bookmark_data.obj /\ KeySubId \in DOMAIN bookmark_data.obj
                  THEN RecoverKeepsFirst(msgs, i + 1,
                         [x \in (DOMAIN map) \cup {bookmark_data.obj[KeySubId]} |->
                             IF x \in DOMAIN map
                             THEN map[x]
                             ELSE bookmark_data.obj[KeyBookmark]])
                  ELSE RecoverKeepsFirst(msgs, i + 1, map)

\* A loop that leaves at a message that is not a 'sow' message (break
\* for continue).
RECURSIVE RecoverBreaks(_, _, _)
RecoverBreaks(msgs, i, map) ==
    IF i > Len(msgs) THEN [map |-> map, exc |-> NoException]
    ELSE IF msgs[i].command # "sow" THEN [map |-> map, exc |-> NoException]
    ELSE LET bookmark_data == json_loads(msgs[i].data)
         IN  IF ~bookmark_data.ok THEN [map |-> map, exc |-> ValueError]
             ELSE IF KeyBookmark \in DOMAIN bookmark_data.obj /\ KeySubId \in DOMAIN bookmark_data.obj
                  THEN RecoverBreaks(msgs, i + 1,
                         [x \in (DOMAIN map) \cup {bookmark_data.obj[KeySubId]} |->
                             IF x = bookmark_data.obj[KeySubId]
                             THEN bookmark_data.obj[KeyBookmark]
                             ELSE map[x]])
                  ELSE RecoverBreaks(msgs, i + 1, map)

\* A loop body that stores the two fields the wrong way round.
RECURSIVE RecoverSwapped(_, _, _)
RecoverSwapped(msgs, i, map) ==
    IF i > Len(msgs) THEN [map |-> map, exc |-> NoException]
    ELSE IF msgs[i].command # "sow" THEN RecoverSwapped(msgs, i + 1, map)
    ELSE LET bookmark_data == json_loads(msgs[i].data)
         IN  IF ~bookmark_data.ok THEN [map |-> map, exc |-> ValueError]
             ELSE IF KeyBookmark \in DOMAIN bookmark_data.obj /\ KeySubId \in DOMAIN bookmark_data.obj
                  THEN RecoverSwapped(msgs, i + 1,
                         [x \in (DOMAIN map) \cup {bookmark_data.obj[KeyBookmark]} |->
                             IF x = bookmark_data.obj[KeyBookmark]
                             THEN bookmark_data.obj[KeySubId]
                             ELSE map[x]])
                  ELSE RecoverSwapped(msgs, i + 1, map)

\* Lines 135-142, for the messages msgs[i..]: the dict after the loop and
\* the exception that ended it, if any.
RECURSIVE Recover(_, _, _)
Recover(msgs, i, map) ==
    IF i > Len(msgs) THEN [map |-> map, exc |-> NoException]
    ELSE IF msgs[i].command # "sow" THEN Recover(msgs, i + 1, map)
    ELSE LET bookmark_data == json_loads(msgs[i].data)
         IN  IF ~bookmark_data.ok THEN [map |-> map, exc |-> ValueError]
             ELSE IF KeyBookmark \in DOMAIN bookmark_data.obj /\ KeySubId \in DOMAIN bookmark_data.obj
                  THEN Recover(msgs, i + 1,
                         [x \in (DOMAIN map) \cup {bookmark_data.obj[KeySubId]} |->
                             IF x = bookmark_data.obj[KeySubId]
                             THEN bookmark_data.obj[KeyBookmark]
                             ELSE map[x]])
                  ELSE Recover(msgs, i + 1, map)

\* The outcome of construction: the object's dict, the exception the
\* caller sees, whether the connection survived.
\*  - not connected, or a filter the server refuses: sow() raises, the
\*    dict is empty;
\*  - otherwise the stream yields its first n messages; with n short of
\*    the whole result the connection broke and the iteration raises.
InitOutcomes(name) ==
    LET lit == FilterLiteral(FormatFilter(name))
    IN  IF ~connected
        THEN {[map |-> <<>>, exc |-> AMPSException, conn |-> FALSE]}
        ELSE IF lit = None
        THEN {[map |-> <<>>, exc |-> AMPSException, conn |-> TRUE]}
        ELSE UNION {
               { LET r == Recover(SubSeq(res, 1, n), 1, <<>>)
                 IN  [map |-> r.map,
                      exc |-> IF r.exc # NoException THEN r.exc
                              ELSE IF n < Len(res) THEN AMPSException
                              ELSE NoException,
                      conn |-> (n = Len(res) \/ r.exc # NoException)]
                 : n \in 0..Len(res) }
               : res \in QueryResults(sow, lit) }

\* A constructor that swallows the exception.
ConstructedAlways(exc) == TRUE

\* Lines 143-144: an exception leaves the constructor, so the caller gets
\* an object only when none was raised.
Constructed(exc) == exc = NoException

\* A constructor that writes a recovered entry back to the topic.
WrittenBackByInit(name, map) ==
    IF map = <<>> THEN <<>>
    ELSE LET subid == CHOOSE x \in DOMAIN map : TRUE
         IN  <<FormatRecord(name, subid, map[subid])>>

\* The documents the constructor hands to publish: lines 128-144 call
\* sow() and nothing else of the internal client.
WrittenByInit(name, map) == <<>>

\* The constructor call, in a fresh process or after a restart.
sow_bookmark_store(name) ==
    \E o \in InitOutcomes(name) :
        /\ trackedName' = name
        /\ mostRecentBookmark' = o.map
        /\ held' = Constructed(o.exc)
        /\ connected' = o.conn
        /\ history' = <<>>
        /\ ret' = Call("__init__", name, o.exc, None, WrittenByInit(name, o.map), 1)
        /\ UNCHANGED <<sow, entitled, discards, threads, replies>>

(***************************************************************************)
(* get_most_recent (lines 156-170)                                         *)
(***************************************************************************)

\* A lookup that answers None for an unknown subscription id, as
\* dict.get does.
MostRecentOrNone(map, subid) ==
    IF subid \in DOMAIN map THEN map[subid] ELSE None

MostRecent(map, subid) ==
    IF subid \in DOMAIN map THEN map[subid] ELSE EPOCH

\* A lookup that files the default under the subscription id, as
\* dict.setdefault does.
AfterLookupSetDefault(map, subid) ==
    [x \in (DOMAIN map) \cup {subid} |-> IF x \in DOMAIN map THEN map[x] ELSE EPOCH]

\* Lines 167-170 read the dict and assign nothing.
AfterLookup(map, subid) == map

get_most_recent(subid) ==
    /\ held
    /\ ret' = Call("get_most_recent", subid, NoException,
                   MostRecent(mostRecentBookmark, subid), <<>>, 0)
    /\ mostRecentBookmark' = AfterLookup(mostRecentBookmark, subid)
    /\ UNCHANGED <<sow, connected, held, trackedName, entitled, discards, history, threads, replies>>

(***************************************************************************)
(* set_server_version (lines 146-154), is_discarded (lines 172-183),       *)
(* log (lines 185-196), persisted (lines 198-210) and the deprecated       *)
(* discard(subid, seqnumber) (lines 231-242).  The call records of the     *)
(* methods whose body is pass or a constant keep no argument.              *)
(***************************************************************************)

\* Server versions the host client reports.
Versions == {<<"5">>}

set_server_version(version) ==
    /\ held
    /\ ret' = Call("set_server_version", None, NoException, None, <<>>, 0)
    /\ UNCHANGED <<sow, connected, held, trackedName, mostRecentBookmark, entitled, discards, history, threads, replies>>

\* An is_discarded that compares the message with the dict.
IsDiscardedByLookup(map, message) ==
    IF message.subid \in DOMAIN map /\ map[message.subid] = message.bookmark THEN True ELSE False

\* Line 183.
IsDiscarded(map, message) == False

is_discarded(message) ==
    /\ held
    /\ ret' = Call("is_discarded", message, NoException,
                   IsDiscarded(mostRecentBookmark, message), <<>>, 0)
    /\ UNCHANGED <<sow, connected, held, trackedName, mostRecentBookmark, entitled, discards, history, threads, replies>>

log(message) ==
    /\ held
    /\ ret' = Call("log", None, NoException, LOG_TOKEN, <<>>, 0)
    /\ UNCHANGED <<sow, connected, held, trackedName, mostRecentBookmark, entitled, discards, history, threads, replies>>

\* A persisted that records the bookmark as progress.
PersistedRemembers(map, subid, bookmark) ==
    [x \in (DOMAIN map) \cup {subid} |-> IF x = subid THEN bookmark ELSE map[x]]

\* Line 210: pass.
Persisted(map, subid, bookmark) == map

persisted(subid, bookmark) ==
    /\ held
    /\ ret' = Call("persisted", None, NoException, None, <<>>, 0)
    /\ mostRecentBookmark' = Persisted(mostRecentBookmark, subid, bookmark)
    /\ UNCHANGED <<sow, connected, held, trackedName, entitled, discards, history, threads, replies>>

\* Line 242: pass.
discard(subid, seqnumber) ==
    /\ held
    /\ ret' = Call("discard", None, NoException, None, <<>>, 0)
    /\ UNCHANGED <<sow, connected, held, trackedName, mostRecentBookmark, entitled, discards, history, threads, replies>>

(***************************************************************************)
(* discard_message (lines 212-229)                                         *)
(***************************************************************************)

\* A test of the bookmark only.
SkippedBookmarkOnly(subid, bookmark) == bookmark = None

\* A truth-value test, which also skips empty strings.
SkippedFalsy(subid, bookmark) == bookmark \in {None, <<>>} \/ subid \in {None, <<>>}

\* Line 222.
Skipped(subid, bookmark) == bookmark = None \/ subid = None

\* A store that keeps the first bookmark of a subscription id.
RememberFirst(map, subid, bookmark) ==
    [x \in (DOMAIN map) \cup {subid} |-> IF x \in DOMAIN map THEN map[x] ELSE bookmark]

\* Line 227: self._mostRecentBookmark[subid] = bookmark.
Remember(map, subid, bookmark) ==
    [x \in (DOMAIN map) \cup {subid} |-> IF x = subid THEN bookmark ELSE map[x]]

\* A store that fills the dict before it publishes.
CacheBeforePublish(map, subid, bookmark) ==
    [x \in (DOMAIN map) \cup {subid} |-> IF x = subid THEN bookmark ELSE map[x]]

\* Lines 225-229 when publish raises: line 227 is skipped, the dict is as
\* it was.
AfterFailedPublish(map, subid, bookmark) == map

discard_message(message) ==
    LET subid == message.subid
        bookmark == message.bookmark
    IN
    /\ held
    /\ IF Skipped(subid, bookmark)
       THEN /\ ret' = Call("discard_message", message, NoException, None, <<>>, 0)
            /\ UNCHANGED <<sow, mostRecentBookmark, discards, history>>
       ELSE LET msg == FormatRecord(trackedName, subid, bookmark)
            IN  /\ discards < MaxDiscards
                /\ discards' = discards + 1
                /\ IF ~connected
                   THEN \* publish raises: line 227 is not reached
                        /\ ret' = Call("discard_message", message, AMPSException, None, <<msg>>, 0)
                        /\ mostRecentBookmark' = AfterFailedPublish(mostRecentBookmark, subid, bookmark)
                        /\ UNCHANGED <<sow, history>>
                   ELSE \* publish returns; the server applies the write or,
                        \* the client lacking entitlements, drops it without
                        \* a signal
                        /\ sow' = IF entitled THEN Upsert(sow, msg) ELSE sow
                        /\ mostRecentBookmark' = Remember(mostRecentBookmark, subid, bookmark)
                        /\ history' = Append(history, message)
                        /\ ret' = Call("discard_message", message, NoException, None, <<msg>>, 0)
    /\ UNCHANGED <<connected, held, trackedName, entitled, threads, replies>>

(***************************************************************************)
(* The connection of the internal client, which the store does not manage  *)
(***************************************************************************)
Disconnect ==
    /\ connected
    /\ connected' = FALSE
    /\ ret' = NoCall
    /\ UNCHANGED <<sow, held, trackedName, mostRecentBookmark, entitled, discards, history, threads, replies>>

Reconnect ==
    /\ ~connected
    /\ connected' = TRUE
    /\ ret' = NoCall
    /\ UNCHANGED <<sow, held, trackedName, mostRecentBookmark, entitled, discards, history, threads, replies>>

Next ==
    \/ \E name \in TrackedNames : sow_bookmark_store(name)
    \/ \E subid \in Lookups : get_most_recent(subid)
    \/ \E message \in Messages : discard_message(message)
    \/ \E version \in Versions : set_server_version(version)
    \/ \E message \in Arrivals : is_discarded(message)
    \/ \E message \in Arrivals : log(message)
    \/ \E message \in Arrivals : persisted(message.subid, message.bookmark)
    \/ \E message \in Arrivals : discard(message.subid, LOG_TOKEN)
    \/ Disconnect
    \/ Reconnect

Spec == Init /\ [][Next]_vars

(***************************************************************************)
(* discard_message called from several threads of the host application.    *)
(* The method takes no lock: between publish (line 226), which blocks in   *)
(* the client library, and the dict assignment (line 227) another thread   *)
(* can run.  A call is two steps: lines 220-226, then line 227 and the     *)
(* return.  The internal client stays connected and entitled, it sends     *)
(* the publishes in the order of the calls and the server applies them in  *)
(* that order.                                                             *)
(***************************************************************************)

\* The messages the threads discard.
ThreadMessages ==
    { Message(<<"s">>, <<"1">>), Message(<<"s">>, <<"2">>), Message(<<"t">>, <<"1">>),
      Message(<<"s">>, None) }

\* A store constructed for client c over the topic, before any thread
\* calls it.
InitThreads ==
    /\ sow \in {{Row(d) : d \in docs} : docs \in SUBSET InitDocs}
    /\ connected = TRUE
    /\ held = TRUE
    /\ trackedName = <<"c">>
    /\ mostRecentBookmark =
          Recover(CHOOSE res \in QueryResults(sow, <<"c">>) : TRUE, 1, <<>>).map
    /\ entitled = TRUE
    /\ discards = 0
    /\ history = <<>>
    /\ ret = Call("__init__", <<"c">>, NoException, None, <<>>, 1)
    /\ threads = NoThreads
    /\ replies = NoReplies

\* Lines 220-226 in thread t.
discard_message_publish(t, message) ==
    /\ threads[t].pc = "idle"
    /\ IF Skipped(message.subid, message.bookmark)
       THEN /\ threads' = [threads EXCEPT ![t] = [pc |-> "returned", message |-> message]]
            /\ ret' = Call("discard_message", message, NoException, None, <<>>, 0)
            /\ UNCHANGED <<sow, discards>>
       ELSE /\ discards < MaxDiscards
            /\ discards' = discards + 1
            /\ threads' = [threads EXCEPT ![t] = [pc |-> "published", message |-> message]]
            /\ sow' = Upsert(sow, FormatRecord(trackedName, message.subid, message.bookmark))
            /\ ret' = NoCall
    /\ UNCHANGED <<connected, held, trackedName, mostRecentBookmark, entitled, history, replies>>

\* Line 227 and the return in thread t.
discard_message_remember(t) ==
    LET message == threads[t].message
    IN  /\ threads[t].pc = "published"
        /\ mostRecentBookmark' = Remember(mostRecentBookmark, message.subid, message.bookmark)
        /\ threads' = [threads EXCEPT ![t].pc = "returned"]
        /\ history' = Append(history, message)
        /\ ret' = Call("discard_message", message, NoException, None,
                       <<FormatRecord(trackedName, message.subid, message.bookmark)>>, 0)
        /\ UNCHANGED <<sow, connected, held, trackedName, entitled, discards, replies>>

NextThreads ==
    \/ \E t \in Threads, message \in ThreadMessages : discard_message_publish(t, message)
    \/ \E t \in Threads : discard_message_remember(t)

SpecThreads == InitThreads /\ [][NextThreads]_vars

(***************************************************************************)
(* The constructor over an answer the topic definition does not allow for: *)
(* the loop of lines 134-142 takes whatever messages sow() yields, in any  *)
(* number and order.  Here the answer to the recovery query is given, not  *)
(* computed from the topic; the connection holds while it is read.         *)
(***************************************************************************)

\* A document without the subId field.
NoSubIdDoc ==
    <<"{", QUOTE>> \o KeyClientName \o <<QUOTE, ":", " ", QUOTE, "c", QUOTE, ",", " ", QUOTE>>
        \o KeyBookmark \o <<QUOTE, ":", " ", QUOTE, "2", QUOTE, "}">>

\* A text json.loads refuses.
NotJsonDoc == <<"{", QUOTE, "s">>

\* The messages an answer is made of: the two group markers; records of
\* one subscription id with different bookmarks; a record of another
\* subscription id; records without bookmark and without subId; a record
\* that is not JSON.
ReplyMessages ==
    { GroupBegin, GroupEnd,
      SowMessage(FormatRecord(<<"c">>, <<"s">>, <<"1">>)),
      SowMessage(FormatRecord(<<"c">>, <<"s">>, <<"2">>)),
      SowMessage(FormatRecord(<<"c">>, <<"t">>, <<"1">>)),
      SowMessage(NoBookmarkDoc),
      SowMessage(NoSubIdDoc),
      SowMessage(NotJsonDoc) }

\* The length of the longest answer.
MaxReplies == 3

Replies == UNION {[1..n -> ReplyMessages] : n \in 0..MaxReplies}

InitReplied ==
    /\ sow = {}
    /\ connected = TRUE
    /\ held = FALSE
    /\ trackedName = None
    /\ mostRecentBookmark = <<>>
    /\ entitled = TRUE
    /\ discards = 0
    /\ history = <<>>
    /\ ret = NoCall
    /\ threads = NoThreads
    /\ replies \in Replies

\* Lines 128-144 when sow() yields the messages of replies.
sow_bookmark_store_replied(name) ==
    LET r == IF FilterLiteral(FormatFilter(name)) = None
             THEN [map |-> <<>>, exc |-> AMPSException]
             ELSE Recover(replies, 1, <<>>)
    IN  /\ connected
        /\ trackedName' = name
        /\ mostRecentBookmark' = r.map
        /\ held' = Constructed(r.exc)
        /\ history' = <<>>
        /\ ret' = Call("__init__", name, r.exc, None, WrittenByInit(name, r.map), 1)
        /\ UNCHANGED <<sow, connected, entitled, discards, threads, replies>>

NextReplied ==
    \/ \E name \in TrackedNames : sow_bookmark_store_replied(name)
    \/ \E subid \in Lookups : get_most_recent(subid)

SpecReplied == InitReplied /\ [][NextReplied]_vars

(***************************************************************************)
(* Properties                                                              *)
(***************************************************************************)

\* The field of a row's document, as json.loads reads it.
Field(row, name) == json_loads(row.data).obj[name]

HasField(row, name) == name \in DOMAIN json_loads(row.data).obj

\* The rows of the topic for a client and a subscription id.
RowsOf(rows, clientName, subid) == {r \in rows : r.key = <<clientName, subid>>}

\* The last message of a sequence that carries the subscription id.
LastFor(h, subid) ==
    h[CHOOSE i \in 1..Len(h) : h[i].subid = subid /\ \A j \in (i + 1)..Len(h) : h[j].subid # subid]

\* The step is a discard_message call whose message carries a subscription
\* id and a bookmark.
Discarding(call) ==
    call.op = "discard_message" /\ call.arg.subid # None /\ call.arg.bookmark # None

\* C1: for every subscription id, once messages of that id were discarded
\* without error through this store, get_most_recent(id) is the bookmark
\* of the message of the most recent such call; this holds after every
\* call, whatever the order of the bookmarks.
C1_MostRecentIsLastDiscarded ==
    held =>
        \A i \in 1..Len(history) :
            MostRecent(mostRecentBookmark, history[i].subid) = LastFor(history, history[i].subid).bookmark

\* C1 witness: two messages of one subscription id with different
\* bookmarks were discarded in turn, the second call has just returned.
C1_Witness ==
    /\ held
    /\ Len(history) = 2
    /\ history[1].subid = history[2].subid
    /\ history[1].bookmark # history[2].bookmark
    /\ ret.op = "discard_message" /\ ret.exc = NoException /\ ret.arg = history[2]

\* C2: restart round trip.  When a store whose publishes were all applied
\* is replaced by a new store constructed for the same client over the
\* same topic, the new store returns for every subscription id what the
\* old one returned.
C2_RestartRoundTrip ==
    [][(held /\ entitled /\ ret'.op = "__init__" /\ ret'.arg = trackedName /\ held')
          => \A subid \in SubIds :
                MostRecent(mostRecentBookmark', subid) = MostRecent(mostRecentBookmark, subid)]_vars

\* C3: recovery.  Right after a successful construction for client C,
\* every row of the topic with clientName = C that carries a bookmark
\* gives get_most_recent(row.subId) = row.bookmark, and a subscription
\* id with no such row (it has none, or only rows of other clients, or a
\* row without bookmark) gives '0'.
C3_Recovery ==
    (held /\ ret.op = "__init__") =>
        /\ \A r \in sow :
              (r.key[1] = trackedName /\ HasField(r, KeyBookmark))
                  => MostRecent(mostRecentBookmark, r.key[2]) = Field(r, KeyBookmark)
        /\ \A subid \in SubIds \cup {r.key[2] : r \in sow} :
              (\A r \in RowsOf(sow, trackedName, subid) : ~HasField(r, KeyBookmark))
                  => /\ MostRecent(mostRecentBookmark, subid) = EPOCH
                     /\ subid \notin DOMAIN mostRecentBookmark

\* C3 witness: a store was constructed over a topic that holds a row of
\* the tracked client with a bookmark, and a row of another client whose
\* subscription id the tracked client has no row for.
C3_Witness ==
    /\ held /\ ret.op = "__init__"
    /\ \E r \in sow : r.key[1] = trackedName /\ HasField(r, KeyBookmark)
    /\ \E r \in sow : r.key[1] # trackedName /\ RowsOf(sow, trackedName, r.key[2]) = {}

\* C4: a discard_message whose publish fails (the internal client is not
\* connected) raises the store error to the caller and leaves the whole
\* dict, hence every get_most_recent, as it was; the topic is unchanged.
C4_FailedPublishNoUpdate ==
    [][(~connected /\ Discarding(ret'))
          => /\ ret'.exc = AMPSException
             /\ ret'.pubs = <<FormatRecord(trackedName, ret'.arg.subid, ret'.arg.bookmark)>>
             /\ mostRecentBookmark' = mostRecentBookmark
             /\ \A subid \in SubIds :
                   MostRecent(mostRecentBookmark', subid) = MostRecent(mostRecentBookmark, subid)
             /\ sow' = sow]_vars

\* C4 witness: a discard_message has just raised, on a store that had
\* discarded a message with another bookmark before.
C4_Witness ==
    /\ held
    /\ ret.op = "discard_message" /\ ret.exc = AMPSException
    /\ Len(history) = 1
    /\ ret.arg.subid = history[1].subid /\ ret.arg.bookmark # history[1].bookmark
    /\ MostRecent(mostRecentBookmark, history[1].subid) = history[1].bookmark

\* C5: write-then-cache.  While the caller holds a store and the topic
\* applies every publish that returns, every dict entry subid -> bookmark
\* is backed by a row of the topic with key (trackedName, subid) whose
\* bookmark field is that bookmark.
C5_WriteThenCache ==
    (held /\ entitled) =>
        \A subid \in DOMAIN mostRecentBookmark :
            \E r \in RowsOf(sow, trackedName, subid) :
                /\ HasField(r, KeyBookmark)
                /\ Field(r, KeyBookmark) = mostRecentBookmark[subid]

\* C6: discard is idempotent.  When a discard_message that returned is
\* followed at once by a discard_message of the same message,
\* get_most_recent of its subscription id does not change between the
\* calls, and, the topic applying every publish, the topic then holds
\* exactly one row for (trackedName, subId), with the message's bookmark.
C6_DiscardIdempotent ==
    [][(entitled /\ Discarding(ret) /\ ret.exc = NoException
          /\ ret'.op = "discard_message" /\ ret'.arg = ret.arg)
          => /\ MostRecent(mostRecentBookmark', ret.arg.subid) = MostRecent(mostRecentBookmark, ret.arg.subid)
             /\ Cardinality(RowsOf(sow', trackedName, ret.arg.subid)) = 1
             /\ \A r \in RowsOf(sow', trackedName, ret.arg.subid) :
                   HasField(r, KeyBookmark) /\ Field(r, KeyBookmark) = ret.arg.bookmark]_vars

\* C7: one record per subscription.  The topic never holds two rows with
\* the same (clientName, subId), and a discard_message that publishes
\* hands the server a single record whose key is (trackedName, subId) of
\* the message; when the server applies it, the topic holds that record
\* as the only row of the key and its other rows are untouched.
C7_OneRowPerSubscription ==
    [][/\ \A r1, r2 \in sow' : r1.key = r2.key => r1 = r2
       /\ Discarding(ret')
             => /\ Len(ret'.pubs) = 1
                /\ HasKey(ret'.pubs[1])
                /\ SowKey(ret'.pubs[1]) = <<trackedName, ret'.arg.subid>>
                /\ (ret'.exc = NoException /\ entitled)
                      => /\ RowsOf(sow', trackedName, ret'.arg.subid) = {Row(ret'.pubs[1])}
                         /\ \A r \in sow' : r.key # <<trackedName, ret'.arg.subid>> => r \in sow
                         /\ \A r \in sow : r.key # <<trackedName, ret'.arg.subid>> => r \in sow']_vars

\* C8: a discard_message whose message has no subscription id or no
\* bookmark (None) hands nothing to publish, leaves the dict and the
\* topic unchanged and raises nothing, connected or not.
C8_MissingFieldNoOp ==
    [][(ret'.op = "discard_message" /\ (ret'.arg.subid = None \/ ret'.arg.bookmark = None))
          => /\ ret'.pubs = <<>>
             /\ ret'.exc = NoException
             /\ mostRecentBookmark' = mostRecentBookmark
             /\ sow' = sow]_vars

\* C8 witness: a discard_message of a message without subscription id
\* has just returned without publishing, on a store that is not
\* connected and has discarded a message before.
C8_Witness ==
    /\ held /\ ~connected
    /\ ret.op = "discard_message" /\ ret.arg.subid = None
    /\ ret.pubs = <<>> /\ ret.exc = NoException
    /\ history # <<>>

\* C9 as stated: a discard_message whose subscription id or bookmark is
\* the empty string publishes nothing and leaves the dict unchanged.
C9_EmptyStringNoOp ==
    [][(ret'.op = "discard_message" /\ (ret'.arg.subid = <<>> \/ ret'.arg.bookmark = <<>>))
          => /\ ret'.pubs = <<>>
             /\ mostRecentBookmark' = mostRecentBookmark]_vars

\* C9 amended: discard_message is a silent no-op exactly when the
\* subscription id or the bookmark is None.  An empty string is a value
\* like any other: the record is handed to publish and, when publish
\* returns, the dict maps the subscription id to the bookmark.
C9_OnlyNoneIsAbsent ==
    [][ret'.op = "discard_message"
          => /\ (ret'.pubs = <<>>) <=> (ret'.arg.subid = None \/ ret'.arg.bookmark = None)
             /\ (ret'.pubs = <<>>) => mostRecentBookmark' = mostRecentBookmark
             /\ (Discarding(ret') /\ (ret'.arg.subid = <<>> \/ ret'.arg.bookmark = <<>>))
                   => /\ ret'.pubs = <<FormatRecord(trackedName, ret'.arg.subid, ret'.arg.bookmark)>>
                      /\ ret'.exc = NoException
                            => /\ ret'.arg.subid \in DOMAIN mostRecentBookmark'
                               /\ mostRecentBookmark'[ret'.arg.subid] = ret'.arg.bookmark]_vars

\* C9 witness: after a discard_message that returned, the dict maps the
\* empty subscription id to the message's bookmark, or the message's
\* subscription id to the empty bookmark.
C9_Witness ==
    /\ held
    /\ Discarding(ret) /\ ret.exc = NoException /\ ret.pubs # <<>>
    /\ ret.arg.subid = <<>> \/ ret.arg.bookmark = <<>>
    /\ ret.arg.subid \in DOMAIN mostRecentBookmark
    /\ mostRecentBookmark[ret.arg.subid] = ret.arg.bookmark

\* C10: construction is all or nothing.  A constructor call whose query
\* fails, at the start or with the connection breaking while the records
\* are read, raises and leaves the caller without a store; when the
\* caller gets a store, its dict has an entry for every row of the
\* tracked client that carries a bookmark.
C10_NoPartialIndex ==
    [][ret'.op = "__init__"
          => /\ (~connected \/ ~connected') => (ret'.exc = AMPSException /\ ~held')
             /\ (ret'.exc # NoException) => ~held'
             /\ held' => \A r \in sow' :
                   (r.key[1] = ret'.arg /\ HasField(r, KeyBookmark))
                       => /\ r.key[2] \in DOMAIN mostRecentBookmark'
                          /\ mostRecentBookmark'[r.key[2]] = Field(r, KeyBookmark)]_vars

\* C10 witness: the connection broke while the records were read; the
\* abandoned object's dict holds one row of the tracked client and lacks
\* another, and the caller holds no store.
C10_Witness ==
    /\ ~held /\ ~connected
    /\ ret.op = "__init__" /\ ret.exc = AMPSException
    /\ mostRecentBookmark # <<>>
    /\ \E r \in sow :
          /\ r.key[1] = trackedName /\ HasField(r, KeyBookmark)
          /\ r.key[2] \notin DOMAIN mostRecentBookmark

\* C11: get_most_recent of a subscription id that is not in the dict
\* returns '0'; no get_most_recent call raises, and none adds an entry to
\* the dict or changes one.
C11_UnknownIsEpoch ==
    [][ret'.op = "get_most_recent"
          => /\ ret'.exc = NoException
             /\ ret'.arg \notin DOMAIN mostRecentBookmark => ret'.value = EPOCH
             /\ DOMAIN mostRecentBookmark' = DOMAIN mostRecentBookmark
             /\ mostRecentBookmark' = mostRecentBookmark]_vars

\* C11 witness: get_most_recent has just returned '0' for a subscription
\* id that was never discarded through this store and that no row of the
\* tracked client carries, while the dict holds another id.
C11_Witness ==
    /\ held
    /\ ret.op = "get_most_recent" /\ ret.value = EPOCH
    /\ ret.arg \notin DOMAIN mostRecentBookmark
    /\ \A i \in 1..Len(history) : history[i].subid # ret.arg
    /\ RowsOf(sow, trackedName, ret.arg) = {}
    /\ mostRecentBookmark # <<>>

\* The topic holds a row of the client and the subscription id with the
\* bookmark.
StoreHolds(rows, clientName, subid, bookmark) ==
    \E r \in RowsOf(rows, clientName, subid) :
        HasField(r, KeyBookmark) /\ Field(r, KeyBookmark) = bookmark

\* C12: silent rejection.  When the internal client is connected and the
\* server does not apply what it publishes, a discard_message with a
\* subscription id and a bookmark raises nothing, leaves the topic as it
\* was and still maps the subscription id to the message's bookmark; a
\* store constructed afterwards for the same client does not return a
\* bookmark the old store reported and the topic does not hold.
C12_SilentRejection ==
    [][/\ (connected /\ ~entitled /\ Discarding(ret'))
             => /\ ret'.exc = NoException
                /\ sow' = sow
                /\ ret'.arg.subid \in DOMAIN mostRecentBookmark'
                /\ MostRecent(mostRecentBookmark', ret'.arg.subid) = ret'.arg.bookmark
       /\ (held /\ ~entitled /\ ret'.op = "__init__" /\ ret'.arg = trackedName /\ held')
             => \A subid \in DOMAIN mostRecentBookmark :
                   ~StoreHolds(sow, trackedName, subid, mostRecentBookmark[subid])
                       => MostRecent(mostRecentBookmark', subid) # mostRecentBookmark[subid]]_vars

\* C12 witness: a discard_message has just returned on a connected store
\* whose publishes the server drops; get_most_recent gives the message's
\* bookmark and the topic has no row with it.
C12_Witness ==
    /\ held /\ connected /\ ~entitled
    /\ Discarding(ret) /\ ret.exc = NoException
    /\ MostRecent(mostRecentBookmark, ret.arg.subid) = ret.arg.bookmark
    /\ ~StoreHolds(sow, trackedName, ret.arg.subid, ret.arg.bookmark)

Passive ==
    {"get_most_recent", "is_discarded", "log", "persisted", "set_server_version", "discard"}

\* C14: get_most_recent, is_discarded, log, persisted, set_server_version
\* and discard(subid, seqnumber) leave the dict and the topic as they
\* were, hand nothing to publish, issue no query and raise nothing; the
\* dict of a store the caller holds changes only in a discard_message
\* that returns (or when the caller constructs a new store).
C14_PassiveMethods ==
    [][/\ ret'.op \in Passive
             => /\ mostRecentBookmark' = mostRecentBookmark
                /\ sow' = sow
                /\ ret'.pubs = <<>> /\ ret'.queries = 0
                /\ ret'.exc = NoException
       /\ (held /\ mostRecentBookmark' # mostRecentBookmark)
             => \/ ret'.op = "__init__"
                \/ Discarding(ret') /\ ret'.exc = NoException]_vars

\* C14 witness: persisted has just returned on a store that discarded one
\* message; get_most_recent of its subscription id is still the message's
\* bookmark, although persisted was called with another bookmark too.
C14_Witness ==
    /\ held
    /\ ret.op = "persisted"
    /\ Len(history) = 1
    /\ history[1] \in Arrivals
    /\ MostRecent(mostRecentBookmark, history[1].subid) = history[1].bookmark

\* C15: a constructor call, whether it returns or raises, issues one
\* query, hands nothing to publish and leaves the topic with the rows it
\* had.
C15_RecoveryReadOnly ==
    [][ret'.op = "__init__"
          => /\ ret'.queries = 1
             /\ ret'.pubs = <<>>
             /\ sow' = sow]_vars

\* C15 witness: a store has just been constructed over a topic that
\* earlier discards wrote to, and has recovered a bookmark from it.
C15_Witness ==
    /\ held
    /\ ret.op = "__init__" /\ ret.exc = NoException /\ ret.queries = 1
    /\ discards > 0 /\ entitled
    /\ \E r \in sow : /\ r.key[1] = trackedName
                       /\ r.data \notin InitDocs
                       /\ StoreHolds(sow, trackedName, r.key[2], MostRecent(mostRecentBookmark, r.key[2]))

\* C16: when two discard_message calls for one subscription id run in
\* two threads and both have returned, the dict entry of the subscription
\* id is the bookmark of the topic's row for (trackedName, subId),
\* whatever the interleaving of their steps.
C16_ConcurrentDiscardsAgree ==
    \A t1, t2 \in Threads :
        ( /\ t1 # t2
          /\ threads[t1].pc = "returned" /\ threads[t2].pc = "returned"
          /\ ~Skipped(threads[t1].message.subid, threads[t1].message.bookmark)
          /\ ~Skipped(threads[t2].message.subid, threads[t2].message.bookmark)
          /\ threads[t1].message.subid = threads[t2].message.subid )
        => StoreHolds(sow, trackedName, threads[t1].message.subid,
                      MostRecent(mostRecentBookmark, threads[t1].message.subid))

\* A query result that line 142 takes an entry from: a 'sow' message
\* whose document is JSON with a subId and a bookmark.
Complete(msg) ==
    /\ msg.command = "sow"
    /\ json_loads(msg.data).ok
    /\ KeySubId \in DOMAIN json_loads(msg.data).obj
    /\ KeyBookmark \in DOMAIN json_loads(msg.data).obj

\* A query result that json.loads is not called on, or accepts.
Readable(msg) == msg.command # "sow" \/ json_loads(msg.data).ok

\* The positions of the complete records of a subscription id.
RecordsFor(res, subid) ==
    {i \in 1..Len(res) : Complete(res[i]) /\ json_loads(res[i].data).obj[KeySubId] = subid}

\* The constructor has just run over an answer it could read, for a
\* client name the filter syntax allows.
Recovered ==
    /\ ret.op = "__init__"
    /\ FilterLiteral(FormatFilter(ret.arg)) # None
    /\ \A i \in 1..Len(replies) : Readable(replies[i])

\* C17: when the answer to the recovery query holds several records of
\* one subscription id, the constructor returns a store, and
\* get_most_recent of that id is the bookmark of the last of them in
\* the order of the answer.
C17_LastRecordWins ==
    Recovered =>
        /\ held /\ ret.exc = NoException
        /\ \A subid \in Lookups :
              \A i \in RecordsFor(replies, subid) :
                  (\A j \in RecordsFor(replies, subid) : j <= i)
                      => MostRecent(mostRecentBookmark, subid)
                            = json_loads(replies[i].data).obj[KeyBookmark]

\* C17 witness: a store was constructed over an answer with two records
\* of one subscription id and different bookmarks; get_most_recent gives
\* the second one's bookmark.
C17_Witness ==
    /\ held /\ Recovered
    /\ \E subid \in Lookups :
          \E i, j \in RecordsFor(replies, subid) :
              /\ i < j
              /\ \A k \in RecordsFor(replies, subid) : k <= j
              /\ json_loads(replies[i].data).obj[KeyBookmark]
                    # json_loads(replies[j].data).obj[KeyBookmark]
              /\ MostRecent(mostRecentBookmark, subid)
                    = json_loads(replies[j].data).obj[KeyBookmark]

\* C18: a discard_message call with subscription id S, whether it
\* returns after publishing, raises or does nothing, leaves
\* get_most_recent of every other subscription id as it was, leaves the
\* rows of the topic whose subId is not S as they were and adds none, and
\* every row it writes carries the tracked client's name.
C18_OnlyOwnSubscription ==
    [][ret'.op = "discard_message"
          => /\ \A subid \in SubIds \cup Lookups :
                   subid # ret'.arg.subid
                       => MostRecent(mostRecentBookmark', subid) = MostRecent(mostRecentBookmark, subid)
             /\ \A r \in sow : r.key[2] # ret'.arg.subid => r \in sow'
             /\ \A r \in sow' : r.key[2] # ret'.arg.subid => r \in sow
             /\ \A r \in sow' \ sow : r.key[1] = trackedName]_vars

\* C19: discard_message compares no bookmarks.  Every call that returns
\* after publishing maps the subscription id to the message's bookmark,
\* whatever the dict held, and, the server applying the write, leaves the
\* topic's row for (trackedName, subId) with the message's bookmark,
\* whatever the row held: the recorded progress is the bookmark
\* discarded last, also when it is an earlier one.
C19_LastDiscardOverwrites ==
    [][(Discarding(ret') /\ ret'.exc = NoException)
          => /\ ret'.arg.subid \in DOMAIN mostRecentBookmark'
             /\ mostRecentBookmark'[ret'.arg.subid] = ret'.arg.bookmark
             /\ entitled => StoreHolds(sow', trackedName, ret'.arg.subid, ret'.arg.bookmark)]_vars

\* C20: messages of the answer that are not 'sow' messages, and records
\* without subId or without bookmark, are passed over: the constructor
\* returns a store, the dict has an entry for the subscription id of
\* every complete record, wherever it stands in the answer, and for no
\* other subscription id.
C20_SkippedResults ==
    Recovered =>
        /\ held /\ ret.exc = NoException
        /\ DOMAIN mostRecentBookmark
              = {json_loads(replies[i].data).obj[KeySubId] :
                    i \in {k \in 1..Len(replies) : Complete(replies[k])}}

\* C20 witness: a store was constructed over an answer in which a group
\* marker and a record without bookmark or without subId come before a
\* complete record, whose entry the dict has.
C20_Witness ==
    /\ held /\ Recovered
    /\ \E i, j, k \in 1..Len(replies) :
          /\ i < k /\ j < k
          /\ replies[i].command # "sow"
          /\ replies[j].command = "sow" /\ ~Complete(replies[j])
          /\ Complete(replies[k])
          /\ json_loads(replies[k].data).obj[KeySubId] \in DOMAIN mostRecentBookmark

====
